---- MODULE Spec2Model ----
(***************************************************************************)
(* Model of the options signal system (weltverbenzer/options-signal-system) *)
(*                                                                          *)
(*   - SignalGenerator.generate_signal   (src/src/signal_generator.py)      *)
(*   - MarketSnapshot.is_suitable_for_iron_condor (src/src/market_data.py)  *)
(*   - StockScreener._calculate_scores / screen_all (src/src/screener.py)   *)
(*   - MovementScreener.screen_all / _calculate_movement_score             *)
(*                                       (src/src/movement_screener.py)     *)
(*   - WebsiteGenerator._save_to_history (src/src/website_generator.py)     *)
(*                                                                          *)
(* Units.  Prices, strikes and premiums are whole cents, so a move of one   *)
(* point is 100.  VIX and IV percentile are whole points, expected moves    *)
(* are hundredths of a percent (1.5 % = 150).  Quotes are drawn with an     *)
(* even bid + ask, so every mid price is a whole number of cents and the    *)
(* arithmetic of the code is exact in the model.  A quotient the code       *)
(* keeps as a float (risk_percent) is kept as a fraction [n, d].            *)
(***************************************************************************)
EXTENDS Integers, Sequences, FiniteSets, TLC

VARIABLES
    snapshot,   \* the MarketSnapshot handed to generate_signal
    config,     \* SignalGenerator's settings (capital, max_risk_percent, ...)
    signal,     \* the IronCondorSignal generate_signal returned
    raised,     \* the exception generate_signal let escape, or NoneVal
    earnings,   \* _calculate_scores' argument earnings (a dict)
    iv,         \* _calculate_scores' argument iv (a dict)
    liquidity,  \* _calculate_scores' argument liquidity (a dict)
    avg_volume, \* _calculate_scores' argument avg_volume
    scores,     \* what _calculate_scores ended with
    results,    \* screen_all's list results, in watchlist order
    capital,    \* StockScreener.capital, in dollars
    buckets,    \* the dict screen_all returned
    movement_input, \* the four arguments of _calculate_movement_score
    movement_score, \* what _calculate_movement_score returned
    history_file,   \* the content of history.json
    appended,   \* the signals handed to _save_to_history so far, oldest first
    screener,   \* the class whose screen_all runs
    universe,   \* self.watchlist or self.universe: the symbols to screen
    market,     \* what the data provider holds for each symbol
    cursor,     \* the position of screen_all's for loop in universe
    analysed,   \* the symbols handed to screen_symbol / _analyze_symbol so far
    candidates, \* MovementScreener.screen_all's list candidates
    pc          \* "ready" before the call, "done" after it

signalVars == <<snapshot, config, signal, raised>>

scorerVars == <<earnings, iv, liquidity, avg_volume, scores>>

screenerVars == <<results, capital, buckets>>

movementVars == <<movement_input, movement_score>>

historyVars == <<history_file, appended>>

batchVars == <<screener, universe, market, cursor, analysed, candidates>>

vars == <<signalVars, scorerVars, screenerVars, movementVars, historyVars, batchVars, pc>>

-----------------------------------------------------------------------------
(* Python values *)

\* Python's None
NoneVal == "<None>"

Abs(x) == IF x < 0 THEN -x ELSE x

Max(a, b) == IF a >= b THEN a ELSE b

Min(a, b) == IF a <= b THEN a ELSE b

\* int(a / b) for b # 0: Python's int() truncates toward zero
TruncDiv(a, b) ==
    IF (a >= 0) = (b > 0) THEN Abs(a) \div Abs(b) ELSE -(Abs(a) \div Abs(b))

\* the fraction n / d of two integers, d > 0
Frac(n, d) == [n |-> n, d |-> d]

\* boolean indexing df[mask]: the positions in the set idx, in frame order
RECURSIVE Masked(_)
Masked(idx) ==
    IF idx = {} THEN <<>>
    ELSE LET m == CHOOSE i \in idx : \A j \in idx : i <= j
         IN  <<m>> \o Masked(idx \ {m})

Range(seq) == {seq[i] : i \in 1..Len(seq)}

-----------------------------------------------------------------------------
(* MarketSnapshot.is_suitable_for_iron_condor *)

\* variant: the event flags are tested before the VIX band
is_suitable_events_first(s, max_vix, min_vix) ==
    IF s.has_earnings_today
        THEN [ok |-> FALSE, reason |-> "SPY/SPX Earnings-bezogene Volatilitaet erwartet"]
    ELSE IF s.has_fed_event
        THEN [ok |-> FALSE, reason |-> "Fed-Entscheidung heute - erhoehte Volatilitaet erwartet"]
    ELSE IF s.has_economic_data
        THEN [ok |-> FALSE, reason |-> "Wichtige Wirtschaftsdaten heute (CPI, Jobs, etc.)"]
    ELSE IF s.vix > max_vix THEN [ok |-> FALSE, reason |-> "VIX zu hoch"]
    ELSE IF s.vix < min_vix THEN [ok |-> FALSE, reason |-> "VIX zu niedrig"]
    ELSE [ok |-> TRUE, reason |-> "Bedingungen erfuellt"]

is_suitable_for_iron_condor(s, max_vix, min_vix) ==
    IF s.vix > max_vix THEN [ok |-> FALSE, reason |-> "VIX zu hoch"]
    ELSE IF s.vix < min_vix THEN [ok |-> FALSE, reason |-> "VIX zu niedrig"]
    ELSE IF s.has_earnings_today
        THEN [ok |-> FALSE, reason |-> "SPY/SPX Earnings-bezogene Volatilitaet erwartet"]
    ELSE IF s.has_fed_event
        THEN [ok |-> FALSE, reason |-> "Fed-Entscheidung heute - erhoehte Volatilitaet erwartet"]
    ELSE IF s.has_economic_data
        THEN [ok |-> FALSE, reason |-> "Wichtige Wirtschaftsdaten heute (CPI, Jobs, etc.)"]
    ELSE [ok |-> TRUE, reason |-> "Bedingungen erfuellt"]

-----------------------------------------------------------------------------
(* SignalGenerator *)

\* df.iloc[(df['strike'] - target).abs().argsort()[:1]]: the row of idxs
\* (indices into df) whose strike is nearest to target = tnum / tden.
\* argsort's default kind is quicksort, which numpy does not promise to
\* be stable: of two equally near rows either may come first, and `how`
\* is the order the sort of this frame happened to produce.  Strikes of a
\* chain are distinct, so at most two rows tie.
argsort_first(df, idxs, tnum, tden, how) ==
    LET dist(i) == Abs(tden * df[idxs[i]].strike - tnum)
        best == {i \in 1..Len(idxs) : \A j \in 1..Len(idxs) : dist(i) <= dist(j)}
        pick == IF how = "first"
                THEN CHOOSE i \in best : \A j \in best : i <= j
                ELSE CHOOSE i \in best : \A j \in best : i >= j
    IN  idxs[pick]

AllIdx(df) == [i \in 1..Len(df) |-> i]

\* variant: the fallback takes the last listed put strike, whatever its
\* side of the short strike
long_put_wing_unfiltered(available_put_strikes, short_put_strike, wing_width) ==
    IF short_put_strike - wing_width \in Range(available_put_strikes)
    THEN short_put_strike - wing_width
    ELSE available_put_strikes[Len(available_put_strikes)]

\* the put wing: short - wing_width when it is listed, else the last
\* listed strike below the short strike, else one point below it
long_put_wing(available_put_strikes, short_put_strike, wing_width) ==
    LET lower_strikes ==
            Masked({i \in 1..Len(available_put_strikes) :
                        available_put_strikes[i] < short_put_strike})
    IN  IF short_put_strike - wing_width \in Range(available_put_strikes)
        THEN short_put_strike - wing_width
        ELSE IF Len(lower_strikes) > 0
        THEN available_put_strikes[lower_strikes[Len(lower_strikes)]]
        ELSE short_put_strike - 100

\* the call wing: short + wing_width when it is listed, else the first
\* listed strike above the short strike, else one point above it
long_call_wing(available_call_strikes, short_call_strike, wing_width) ==
    LET higher_strikes ==
            Masked({i \in 1..Len(available_call_strikes) :
                        available_call_strikes[i] > short_call_strike})
    IN  IF short_call_strike + wing_width \in Range(available_call_strikes)
        THEN short_call_strike + wing_width
        ELSE IF Len(higher_strikes) > 0
        THEN available_call_strikes[higher_strikes[1]]
        ELSE short_call_strike + 100

_find_optimal_strikes(calls, puts, current_price, wing_width, t) ==
    LET put_candidates == Masked({i \in 1..Len(puts) : puts[i].strike < current_price})
        call_candidates == Masked({i \in 1..Len(calls) : calls[i].strike > current_price})
    IN
    IF put_candidates = <<>>
    THEN [error |-> "Keine Put-Strikes unter aktuellem Kurs verfuegbar"]
    ELSE IF call_candidates = <<>>
    THEN [error |-> "Keine Call-Strikes ueber aktuellem Kurs verfuegbar"]
    ELSE
    LET \* both branches of the impliedVolatility test aim at the same
        \* targets: price * 0.985 and price * 1.015
        short_put_strike ==
            puts[argsort_first(puts, put_candidates, 985 * current_price, 1000, t.put)].strike
        short_call_strike ==
            calls[argsort_first(calls, call_candidates, 1015 * current_price, 1000, t.call)].strike
        available_put_strikes == [i \in 1..Len(puts) |-> puts[i].strike]
        available_call_strikes == [i \in 1..Len(calls) |-> calls[i].strike]
    IN  [error |-> NoneVal,
         short_put |-> short_put_strike,
         long_put |-> long_put_wing(available_put_strikes, short_put_strike, wing_width),
         short_call |-> short_call_strike,
         long_call |-> long_call_wing(available_call_strikes, short_call_strike, wing_width)]

\* 'col' in row: the frame the row comes from has the column
Has(row, col) == col \in DOMAIN row

\* get_mid_price, the helper nested in _get_premiums.  The nearest row is
\* looked up only for a strike that is not listed, and that is a wing of
\* one point beside a short strike with no listed strike beyond it.
get_mid_price(df, strike, how) ==
    LET exact == Masked({i \in 1..Len(df) : df[i].strike = strike})
        row == IF exact # <<>> THEN df[exact[1]]
               ELSE df[argsort_first(df, AllIdx(df), strike, 1, how)]
    IN  IF Has(row, "bid") /\ Has(row, "ask") /\ row.bid > 0 /\ row.ask > 0
        THEN (row.bid + row.ask) \div 2
        ELSE IF Has(row, "lastPrice") THEN row.lastPrice
        ELSE 0

\* variant: the validation covers the long legs as well
_get_premiums_all_legs(calls, puts, short_put, long_put, short_call, long_call, t) ==
    LET short_put_prem == get_mid_price(puts, short_put, t.put)
        long_put_prem == get_mid_price(puts, long_put, t.put)
        short_call_prem == get_mid_price(calls, short_call, t.call)
        long_call_prem == get_mid_price(calls, long_call, t.call)
    IN  IF \/ short_put_prem <= 0 \/ short_call_prem <= 0
           \/ long_put_prem <= 0 \/ long_call_prem <= 0
        THEN NoneVal
        ELSE <<short_put_prem, long_put_prem, short_call_prem, long_call_prem>>

_get_premiums(calls, puts, short_put, long_put, short_call, long_call, t) ==
    LET short_put_prem == get_mid_price(puts, short_put, t.put)
        long_put_prem == get_mid_price(puts, long_put, t.put)
        short_call_prem == get_mid_price(calls, short_call, t.call)
        long_call_prem == get_mid_price(calls, long_call, t.call)
    IN  IF short_put_prem <= 0 \/ short_call_prem <= 0 THEN NoneVal
        ELSE <<short_put_prem, long_put_prem, short_call_prem, long_call_prem>>

_check_liquidity(calls, puts, short_put, short_call) ==
    LET put_row == Masked({i \in 1..Len(puts) : puts[i].strike = short_put})
        call_row == Masked({i \in 1..Len(calls) : calls[i].strike = short_call})
        Wide(row) == /\ Has(row, "bid") /\ Has(row, "ask") /\ row.bid > 0
                     /\ (row.ask - row.bid) * 100 > 15 * row.bid
    IN  IF put_row = <<>> \/ call_row = <<>> THEN FALSE
        ELSE IF Wide(puts[put_row[1]]) \/ Wide(calls[call_row[1]]) THEN FALSE
        ELSE TRUE

\* variant: a position that collects no credit has risk_reward 0, not inf
_assess_risk_level_no_credit_is_safe(s, net_credit, wing_width) ==
    LET max_loss == wing_width - net_credit
        RiskRewardAbove(k) == IF net_credit > 0 THEN max_loss > k * net_credit ELSE FALSE
    IN  IF s.vix > 22 \/ RiskRewardAbove(4) THEN "HIGH"
        ELSE IF s.vix > 18 \/ RiskRewardAbove(3) THEN "MEDIUM"
        ELSE "LOW"

\* max_loss is local: the loss per share, wing_width - net_credit, and
\* not the max_loss of the signal, which is per contract
_assess_risk_level(s, net_credit, wing_width) ==
    LET max_loss == wing_width - net_credit
        \* risk_reward > k, with risk_reward = inf when net_credit <= 0
        RiskRewardAbove(k) == IF net_credit > 0 THEN max_loss > k * net_credit ELSE TRUE
    IN  IF s.vix > 22 \/ RiskRewardAbove(4) THEN "HIGH"
        ELSE IF s.vix > 18 \/ RiskRewardAbove(3) THEN "MEDIUM"
        ELSE "LOW"

IsWarning(n) == n = "Warnung: Geringe Liquiditaet - groessere Spreads moeglich"

\* variant: one warning is enough for LOW
_assess_confidence_one_warning_is_low(s, notes) ==
    LET warning_count == Cardinality({i \in 1..Len(notes) : IsWarning(notes[i])})
    IN  IF warning_count > 0 \/ s.expected_move > 200 THEN "LOW"
        ELSE IF s.vix > 20 THEN "MEDIUM"
        ELSE "HIGH"

\* "Warnung" in n holds for the liquidity warning only: no other note of
\* generate_signal has the word
_assess_confidence(s, notes) ==
    LET warning_count == Cardinality({i \in 1..Len(notes) : IsWarning(notes[i])})
    IN  IF warning_count > 1 \/ s.expected_move > 200 THEN "LOW"
        ELSE IF warning_count > 0 \/ s.vix > 20 THEN "MEDIUM"
        ELSE "HIGH"

\* variant: an invalid signal that still recommends one contract
_create_invalid_signal_one_contract(s, reason) ==
    [short_put_strike |-> 0, long_put_strike |-> 0,
     short_call_strike |-> 0, long_call_strike |-> 0,
     short_put_premium |-> 0, long_put_premium |-> 0,
     short_call_premium |-> 0, long_call_premium |-> 0,
     net_credit |-> 0, max_loss |-> 0, max_profit |-> 0,
     breakeven_lower |-> 0, breakeven_upper |-> 0,
     recommended_contracts |-> 1, total_risk |-> 0, risk_percent |-> Frac(0, 1),
     current_price |-> s.price, vix |-> s.vix,
     expected_move |-> s.expected_move, iv_percentile |-> s.iv_percentile,
     risk_level |-> "N/A", confidence |-> "N/A", notes |-> <<>>,
     is_valid |-> FALSE, rejection_reason |-> reason]

_create_invalid_signal(s, reason) ==
    [short_put_strike |-> 0, long_put_strike |-> 0,
     short_call_strike |-> 0, long_call_strike |-> 0,
     short_put_premium |-> 0, long_put_premium |-> 0,
     short_call_premium |-> 0, long_call_premium |-> 0,
     net_credit |-> 0, max_loss |-> 0, max_profit |-> 0,
     breakeven_lower |-> 0, breakeven_upper |-> 0,
     recommended_contracts |-> 0, total_risk |-> 0, risk_percent |-> Frac(0, 1),
     current_price |-> s.price, vix |-> s.vix,
     expected_move |-> s.expected_move, iv_percentile |-> s.iv_percentile,
     risk_level |-> "N/A", confidence |-> "N/A", notes |-> <<>>,
     is_valid |-> FALSE, rejection_reason |-> reason]

\* what a call of generate_signal ends with: a returned signal or an
\* exception that escapes to the caller
Returned(sig) == [raised |-> NoneVal, signal |-> sig]

Raises(exc) == [raised |-> exc, signal |-> NoneVal]

\* variant: int(max_risk_dollar / max_loss) without the floor of 1
position_size_unfloored(cap, max_risk_percent, max_loss) ==
    TruncDiv(cap * max_risk_percent, 100 * max_loss)

\* variant: the quotient is rounded to the nearest integer, not truncated
position_size_rounded(cap, max_risk_percent, max_loss) ==
    Max(1, TruncDiv(2 * cap * max_risk_percent + 100 * max_loss, 200 * max_loss))

\* variant: one contract more than the risk budget covers
position_size_one_more(cap, max_risk_percent, max_loss) ==
    Max(1, TruncDiv(cap * max_risk_percent, 100 * max_loss) + 1)

\* max(1, int(max_risk_dollar / max_loss)), max_loss # 0, amounts in cents
position_size(cap, max_risk_percent, max_loss) ==
    Max(1, TruncDiv(cap * max_risk_percent, 100 * max_loss))

\* variant: the premiums paid for the long legs are not deducted
profit_and_loss_credit_not_netted(st, prem) ==
    LET net_credit == prem[1] + prem[3]
        wing_width_actual == st.short_put - st.long_put
    IN  [net_credit |-> net_credit,
         wing_width_actual |-> wing_width_actual,
         max_loss |-> (wing_width_actual - net_credit) * 100,
         max_profit |-> net_credit * 100,
         breakeven_lower |-> st.short_put - net_credit,
         breakeven_upper |-> st.short_call + net_credit]

\* 6. P/L berechnen.  Strikes and premiums are cents per share, and so
\* is net_credit; max_loss and max_profit are cents per contract.
profit_and_loss(st, prem) ==
    LET net_credit == (prem[1] + prem[3]) - (prem[2] + prem[4])
        wing_width_actual == st.short_put - st.long_put
    IN  [net_credit |-> net_credit,
         wing_width_actual |-> wing_width_actual,
         max_loss |-> (wing_width_actual - net_credit) * 100,
         max_profit |-> net_credit * 100,
         breakeven_lower |-> st.short_put - net_credit,
         breakeven_upper |-> st.short_call + net_credit]

\* steps 6 to 11 of generate_signal: the premiums are known
build_signal(s, c, st, prem) ==
    LET short_put_prem == prem[1]
        long_put_prem == prem[2]
        short_call_prem == prem[3]
        long_call_prem == prem[4]
        pl == profit_and_loss(st, prem)
        net_credit == pl.net_credit
        wing_width_actual == pl.wing_width_actual
        max_loss == pl.max_loss
        max_profit == pl.max_profit
        breakeven_lower == pl.breakeven_lower
        breakeven_upper == pl.breakeven_upper
        notes1 == IF ~_check_liquidity(s.calls, s.puts, st.short_put, st.short_call)
                  THEN <<"Warnung: Geringe Liquiditaet - groessere Spreads moeglich">>
                  ELSE <<>>
    IN
    \* max_risk_dollar / max_loss is inf for max_loss = 0 and int(inf)
    \* raises OverflowError; nothing around step 8 catches it
    IF max_loss = 0 THEN Raises("OverflowError")
    ELSE
    LET recommended_contracts == position_size(c.capital, c.max_risk_percent, max_loss)
        total_risk == recommended_contracts * max_loss
        risk_percent == Frac(total_risk * 100, c.capital)
        risk_level == _assess_risk_level(s, net_credit, wing_width_actual)
        confidence == _assess_confidence(s, notes1)
        notes2 == IF s.vix > 20 THEN Append(notes1, "Erhoehte Volatilitaet") ELSE notes1
        notes3 == IF s.expected_move > 150
                  THEN Append(notes2, "Expected Move - Strikes koennten eng sein")
                  ELSE notes2
        notes == IF risk_percent.n > 2 * risk_percent.d
                 THEN Append(notes3, "Risiko ueber Zielwert von 2%")
                 ELSE notes3
    IN  Returned(
        [short_put_strike |-> st.short_put, long_put_strike |-> st.long_put,
         short_call_strike |-> st.short_call, long_call_strike |-> st.long_call,
         short_put_premium |-> short_put_prem, long_put_premium |-> long_put_prem,
         short_call_premium |-> short_call_prem, long_call_premium |-> long_call_prem,
         net_credit |-> net_credit, max_loss |-> max_loss, max_profit |-> max_profit,
         breakeven_lower |-> breakeven_lower, breakeven_upper |-> breakeven_upper,
         recommended_contracts |-> recommended_contracts,
         total_risk |-> total_risk, risk_percent |-> risk_percent,
         current_price |-> s.price, vix |-> s.vix,
         expected_move |-> s.expected_move, iv_percentile |-> s.iv_percentile,
         risk_level |-> risk_level, confidence |-> confidence, notes |-> notes,
         is_valid |-> TRUE, rejection_reason |-> NoneVal])

generate_signal(s, c, t) ==
    LET suit == is_suitable_for_iron_condor(s, c.max_vix, c.min_vix) IN
    IF ~suit.ok THEN Returned(_create_invalid_signal(s, suit.reason))
    ELSE IF s.iv_percentile < c.min_iv_percentile
    THEN Returned(_create_invalid_signal(s, "IV Percentile zu niedrig"))
    ELSE IF s.calls = <<>> \/ s.puts = <<>>
    THEN Returned(_create_invalid_signal(s, "Keine Optionsdaten verfuegbar"))
    ELSE
    LET st == _find_optimal_strikes(s.calls, s.puts, s.price, c.wing_width, t) IN
    IF st.error # NoneVal
    THEN Returned(_create_invalid_signal(s, "Fehler bei Strike-Berechnung: " \o st.error))
    ELSE
    LET prem == _get_premiums(s.calls, s.puts, st.short_put, st.long_put,
                              st.short_call, st.long_call, t) IN
    IF prem = NoneVal
    THEN Returned(_create_invalid_signal(s, "Keine gueltigen Preise fuer gewaehlte Strikes"))
    ELSE build_signal(s, c, st, prem)

-----------------------------------------------------------------------------
(* The inputs of generate_signal *)

\* the longest option chain (rows per side) that is enumerated
MaxChain == 3

\* SignalGenerator.__init__'s defaults: capital 5000, max_risk_percent 2,
\* wing_width 2, min_vix 12, max_vix 25, min_iv_percentile 20
DefaultConfig ==
    [capital |-> 500000, max_risk_percent |-> 2, wing_width |-> 200,
     min_vix |-> 12, max_vix |-> 25, min_iv_percentile |-> 20]

Configs ==
    {[DefaultConfig EXCEPT !.capital = cap[1], !.max_risk_percent = cap[2]] :
        cap \in {<<500000, 2>>, <<5000000, 2>>, <<5000000, 5>>}}

\* the quotes a chain row can carry
Quotes ==
    {[bid |-> 95, ask |-> 105, lastPrice |-> 100, openInterest |-> 500, volume |-> 100],
     [bid |-> 145, ask |-> 155, lastPrice |-> 150, openInterest |-> 500, volume |-> 100],
     [bid |-> 96, ask |-> 104, lastPrice |-> 100, openInterest |-> 50, volume |-> 10],
     [bid |-> 20, ask |-> 30, lastPrice |-> 25, openInterest |-> 50, volume |-> 10],
     [bid |-> 4, ask |-> 6, lastPrice |-> 5, openInterest |-> 50, volume |-> 10],
     [bid |-> 0, ask |-> 0, lastPrice |-> 50, openInterest |-> 500, volume |-> 0],
     [bid |-> 0, ask |-> 0, lastPrice |-> 0, openInterest |-> 0, volume |-> 0]}

\* a small part of Quotes: a tight, a wide and a cheap quote
FewQuotes == {q \in Quotes : q.bid \in {95, 20, 4}}

Row(strike, q) ==
    [strike |-> strike, bid |-> q.bid, ask |-> q.ask, lastPrice |-> q.lastPrice,
     openInterest |-> q.openInterest, volume |-> q.volume]

\* a quote that gets cheaper the further the strike is from the spot
QuoteAt(strike, price) ==
    LET mid == Max(5, 150 - Abs(strike - price) \div 4)
    IN  [bid |-> mid - 5, ask |-> mid + 5, lastPrice |-> mid,
         openInterest |-> 500, volume |-> 100]

\* the chains of at most n rows with distinct strikes from S, in any order
Chains(S, n, price) ==
    UNION {{[i \in 1..k |-> Row(f[i], QuoteAt(f[i], price))] :
                f \in {g \in [1..k -> S] : \A i, j \in 1..k : i # j => g[i] # g[j]}} :
           k \in 0..n}

PutStrikes == {9700, 9800, 9900, 10100}

CallStrikes == {9900, 10100, 10200, 10300}

Snap(price, vix, puts, calls, ivp, em, earn, fed, eco) ==
    [price |-> price, vix |-> vix, puts |-> puts, calls |-> calls,
     iv_percentile |-> ivp, expected_move |-> em, has_earnings_today |-> earn,
     has_fed_event |-> fed, has_economic_data |-> eco]

\* a two-row chain around the spot 100.00 with the given quotes
PutsOf(qLong, qShort) == <<Row(9700, qLong), Row(9900, qShort)>>

CallsOf(qShort, qLong) == <<Row(10100, qShort), Row(10300, qLong)>>

GoodPuts == PutsOf(QuoteAt(9700, 10000), QuoteAt(9900, 10000))

GoodCalls == CallsOf(QuoteAt(10100, 10000), QuoteAt(10300, 10000))

NoQuote == [bid |-> 0, ask |-> 0, lastPrice |-> 0, openInterest |-> 0, volume |-> 0]

\* chains that pass or fail each of the chain gates
GateChains ==
    {<<GoodPuts, GoodCalls>>, <<<<>>, GoodCalls>>, <<GoodPuts, <<>>>>,
     <<<<Row(10100, QuoteAt(10100, 10000))>>, GoodCalls>>,
     <<GoodPuts, <<Row(9900, QuoteAt(9900, 10000))>>>>,
     <<PutsOf(NoQuote, NoQuote), GoodCalls>>}

\* every combination of the market gates, over GateChains
GateSnapshots ==
    {Snap(10000, vix, ch[1], ch[2], ivp, 100, earn, fed, eco) :
        vix \in {10, 12, 16, 25, 30}, ch \in GateChains, ivp \in {10, 20, 45},
        earn \in BOOLEAN, fed \in BOOLEAN, eco \in BOOLEAN}

\* every chain geometry, in a calm market; at the spot 101.00 a listed
\* strike equals the spot
GeometrySnapshots ==
    {Snap(price, 16, puts, calls, 45, 100, FALSE, FALSE, FALSE) :
        price \in {10000, 10100},
        puts \in Chains(PutStrikes, MaxChain, 10000),
        calls \in Chains(CallStrikes, MaxChain, 10000)}

\* every combination of quotes on the four legs, in a calm market
QuoteSnapshots ==
    {Snap(10000, 16, PutsOf(q[1], q[2]), CallsOf(q[3], q[4]), 45, 100, FALSE, FALSE, FALSE) :
        q \in Quotes \X Quotes \X Quotes \X Quotes}

\* a frame without the columns cols
Without(df, cols) == [i \in 1..Len(df) |-> [k \in DOMAIN df[i] \ cols |-> df[i][k]]]

\* the quote columns a frame can lack
ColumnDrops == {{}, {"lastPrice"}, {"bid"}, {"bid", "ask"}, {"bid", "ask", "lastPrice"}}

\* frames that lack quote columns, over quotes with and without a bid
ColumnSnapshots ==
    {Snap(10000, 16, Without(PutsOf(q[1], q[2]), dp), Without(CallsOf(q[3], q[4]), dc),
          45, 100, FALSE, FALSE, FALSE) :
        dp \in ColumnDrops, dc \in ColumnDrops,
        q \in {qs \in Quotes \X Quotes \X Quotes \X Quotes :
                    \A i \in 1..4 : qs[i].bid \in {95, 0}}}

\* the market levels that decide risk level, confidence and notes
MarketSnapshots ==
    {Snap(10000, vix, PutsOf(q[1], q[2]), CallsOf(q[3], q[4]), 45, em, FALSE, FALSE, FALSE) :
        vix \in {16, 19, 20, 21, 23}, em \in {100, 180, 200, 250},
        q \in FewQuotes \X FewQuotes \X FewQuotes \X FewQuotes}

\* a chain that lists every whole strike from lo to hi, in ascending order
OnePointChain(lo, hi, price) ==
    [i \in 1..(hi - lo + 1) |->
        Row((lo + i - 1) * 100, QuoteAt((lo + i - 1) * 100, price))]

\* spot 487.50 on a chain with 1-point strikes, VIX 16, IV percentile 45
ScenarioA ==
    Snap(48750, 16, OnePointChain(476, 499, 48750), OnePointChain(476, 499, 48750),
         45, 100, FALSE, FALSE, FALSE)

\* the two frames whose rows argsort orders: puts and calls
TieSites == {"put", "call"}

TieBreaks == [TieSites -> {"first", "last"}]

SignalIdle == snapshot = NoneVal /\ config = NoneVal /\ signal = NoneVal /\ raised = NoneVal

ScorerIdle ==
    /\ earnings = NoneVal /\ iv = NoneVal /\ liquidity = NoneVal
    /\ avg_volume = NoneVal /\ scores = NoneVal

ScreenerIdle == results = NoneVal /\ capital = NoneVal /\ buckets = NoneVal

MovementIdle == movement_input = NoneVal /\ movement_score = NoneVal

HistoryIdle == history_file = NoneVal /\ appended = NoneVal

BatchIdle ==
    /\ screener = NoneVal /\ universe = NoneVal /\ market = NoneVal
    /\ cursor = NoneVal /\ analysed = NoneVal /\ candidates = NoneVal

InitSignal ==
    /\ \/ snapshot \in GateSnapshots /\ config = DefaultConfig
       \/ snapshot \in GeometrySnapshots
          /\ config \in {[DefaultConfig EXCEPT !.wing_width = w] : w \in {200, 300}}
       \/ snapshot \in QuoteSnapshots /\ config \in Configs
       \/ snapshot \in MarketSnapshots /\ config = DefaultConfig
       \/ snapshot = ScenarioA /\ config = DefaultConfig
       \/ snapshot \in ColumnSnapshots /\ config = DefaultConfig
    /\ signal = NoneVal
    /\ raised = NoneVal
    /\ ScorerIdle /\ ScreenerIdle /\ MovementIdle /\ HistoryIdle /\ BatchIdle
    /\ pc = "ready"

\* main.py: signal = generator.generate_signal(snapshot)
GenerateSignal ==
    /\ pc = "ready"
    /\ \E t \in TieBreaks :
          LET out == generate_signal(snapshot, config, t)
          IN  signal' = out.signal /\ raised' = out.raised
    /\ pc' = "done"
    /\ UNCHANGED <<snapshot, config, scorerVars, screenerVars, movementVars, historyVars, batchVars>>

NextSignal == GenerateSignal

SpecSignal == InitSignal /\ [][NextSignal]_vars

-----------------------------------------------------------------------------
(* StockScreener._calculate_scores *)

\* dict.get(k, default): the default stands in for a missing key only
DictGet(d, k, default) == IF k \in DOMAIN d THEN d[k] ELSE default

\* an Optional[int]: None is <<>> and the integer n is <<n>>
NoInt == <<>>

Some(n) == <<n>>

\* the running scores of _calculate_scores; raised names the exception
\* that ended it.  Reason and warning texts are kept without the numbers
\* the code formats into them.
StartScores ==
    [raised |-> NoneVal, ic_score |-> 50, st_score |-> 50, reasons |-> <<>>, warnings |-> <<>>]

Adjust(acc, ic, st, reason) ==
    [acc EXCEPT !.ic_score = @ + ic, !.st_score = @ + st, !.reasons = Append(@, reason)]

Throw(acc, exc) == [acc EXCEPT !.raised = exc]

\* variant: no earnings in sight is worth 10 points to the iron condor
earnings_influence_bonus_10(acc, e) ==
    IF DictGet(e, "has_earnings_soon", FALSE)
    THEN LET days == DictGet(e, "days_to_earnings", Some(999)) IN
         IF days = NoInt THEN Throw(acc, "TypeError")
         ELSE IF days[1] = 0 THEN Adjust(acc, -40, 40, "EARNINGS HEUTE - ideal fuer Straddle")
         ELSE IF days[1] = 1 THEN Adjust(acc, -35, 35, "Earnings morgen - Straddle-Kandidat")
         ELSE IF -1 <= days[1] /\ days[1] <= 3 THEN Adjust(acc, -25, 25, "Earnings in Tag(en)")
         ELSE acc
    ELSE Adjust(acc, 10, 0, "Keine Earnings in Sicht")

\* variant: earnings two or three days ahead move the scores the other way
earnings_influence_signs_swapped(acc, e) ==
    IF DictGet(e, "has_earnings_soon", FALSE)
    THEN LET days == DictGet(e, "days_to_earnings", Some(999)) IN
         IF days = NoInt THEN Throw(acc, "TypeError")
         ELSE IF days[1] = 0 THEN Adjust(acc, -40, 40, "EARNINGS HEUTE - ideal fuer Straddle")
         ELSE IF days[1] = 1 THEN Adjust(acc, -35, 35, "Earnings morgen - Straddle-Kandidat")
         ELSE IF -1 <= days[1] /\ days[1] <= 3 THEN Adjust(acc, 25, -25, "Earnings in Tag(en)")
         ELSE acc
    ELSE Adjust(acc, 15, 0, "Keine Earnings in Sicht")

\* === EARNINGS-EINFLUSS ===
earnings_influence(acc, e) ==
    IF DictGet(e, "has_earnings_soon", FALSE)
    THEN LET days == DictGet(e, "days_to_earnings", Some(999)) IN
         \* None == 0 and None == 1 are False; -1 <= None raises TypeError
         IF days = NoInt THEN Throw(acc, "TypeError")
         ELSE IF days[1] = 0 THEN Adjust(acc, -40, 40, "EARNINGS HEUTE - ideal fuer Straddle")
         ELSE IF days[1] = 1 THEN Adjust(acc, -35, 35, "Earnings morgen - Straddle-Kandidat")
         ELSE IF -1 <= days[1] /\ days[1] <= 3 THEN Adjust(acc, -25, 25, "Earnings in Tag(en)")
         ELSE acc
    ELSE Adjust(acc, 15, 0, "Keine Earnings in Sicht")

\* === IV-EINFLUSS ===, first part: the IV percentile
iv_influence(acc, v) ==
    LET iv_pct == DictGet(v, "iv_percentile", 50)
        expected_move == DictGet(v, "expected_move", 0)
    IN  IF iv_pct > 70
        THEN IF expected_move < 200
             THEN Adjust(acc, 10, 0, "Hohe IV bei niedrigem Expected Move - gutes Premium")
             ELSE Adjust(acc, -20, 15, "Hohe IV mit hohem Expected Move - Vorsicht!")
        ELSE IF iv_pct < 30
        THEN Adjust(acc, 0, 10, "Niedrige IV - guenstiger Straddle-Einstieg")
        ELSE acc

\* EXPECTED MOVE - KRITISCH fuer Iron Condor!
expected_move_influence(acc, v) ==
    LET expected_move == DictGet(v, "expected_move", 0)
    IN  IF expected_move >= 300
        THEN Adjust(acc, -40, 20, "HOHER Expected Move - NUR Straddle!")
        ELSE IF expected_move >= 200
        THEN Adjust(acc, -20, 10, "Expected Move - Iron Condor riskant")
        ELSE IF expected_move < 150
        THEN Adjust(acc, 15, 0, "Niedriger Expected Move - ideal fuer Iron Condor")
        ELSE acc

\* === LIQUIDITAET ===
liquidity_influence(acc, l) ==
    LET acc1 == IF ~DictGet(l, "is_liquid", FALSE)
                THEN [acc EXCEPT !.ic_score = @ - 20, !.st_score = @ - 20,
                                 !.warnings = Append(@, "Geringe Optionsliquiditaet")]
                ELSE acc
        spread_pct == DictGet(l, "spread_pct", 10000)
    IN  IF spread_pct > 1000
        THEN [acc1 EXCEPT !.warnings = Append(@, "Breiter Bid-Ask Spread")]
        ELSE acc1

\* === AKTIENVOLUMEN ===
volume_influence(acc, vol) ==
    IF vol > 10000000
    THEN [acc EXCEPT !.ic_score = @ + 5, !.st_score = @ + 5]
    ELSE IF vol < 1000000
    THEN [acc EXCEPT !.warnings = Append(@, "Niedriges Handelsvolumen")]
    ELSE acc

\* variant: the scores are capped at 100 only
clamp_scores_upper_only(acc) ==
    [acc EXCEPT !.ic_score = Min(100, @), !.st_score = Min(100, @)]

\* Scores begrenzen: max(0, min(100, score))
clamp_scores(acc) ==
    [acc EXCEPT !.ic_score = Max(0, Min(100, @)), !.st_score = Max(0, Min(100, @))]

_calculate_scores(e, v, l, vol) ==
    LET a1 == earnings_influence(StartScores, e) IN
    IF a1.raised # NoneVal THEN a1
    ELSE clamp_scores(
            volume_influence(
                liquidity_influence(
                    expected_move_influence(iv_influence(a1, v), v), l), vol))

\* a dict with the keys ks of the record full
Dict(full, ks) == [k \in ks |-> full[k]]

EarningsDicts ==
    {Dict([has_earnings_soon |-> h, days_to_earnings |-> d], ks) :
        h \in BOOLEAN,
        d \in {NoInt, Some(-2), Some(-1), Some(0), Some(1), Some(3), Some(4)},
        ks \in SUBSET {"has_earnings_soon", "days_to_earnings"}}

IvDicts ==
    {Dict([iv_percentile |-> p, expected_move |-> m], ks) :
        p \in {20, 70, 71}, m \in {149, 150, 200, 300, 99900},
        ks \in SUBSET {"iv_percentile", "expected_move"}}

LiquidityDicts ==
    {Dict([is_liquid |-> b, spread_pct |-> sp], ks) :
        b \in BOOLEAN, sp \in {1000, 1001}, ks \in SUBSET {"is_liquid", "spread_pct"}}

InitScore ==
    /\ earnings \in EarningsDicts
    /\ iv \in IvDicts
    /\ liquidity \in LiquidityDicts
    /\ avg_volume \in {999999, 1000000, 10000001}
    /\ scores = NoneVal
    /\ SignalIdle /\ ScreenerIdle /\ MovementIdle /\ HistoryIdle /\ BatchIdle
    /\ pc = "ready"

\* screen_symbol: ... = self._calculate_scores(earnings_info, iv_info, liquidity_info, avg_volume)
CalculateScores ==
    /\ pc = "ready"
    /\ scores' = _calculate_scores(earnings, iv, liquidity, avg_volume)
    /\ pc' = "done"
    /\ UNCHANGED <<earnings, iv, liquidity, avg_volume, signalVars, screenerVars,
                   movementVars, historyVars, batchVars>>

NextScore == CalculateScores

SpecScore == InitScore /\ [][NextScore]_vars

-----------------------------------------------------------------------------
(* StockScreener.screen_all: the categorization of the screened results *)

\* the bucket size: sorted(...)[:5]
TopN == 5

\* self.max_straddle_stock_price = (capital * 0.10) / 3 dollars, in cents
max_straddle_stock_price(cap) == Frac(cap * 10, 3)

\* x <= f for a fraction f
LeFrac(x, f) == x * f.d <= f.n

\* r.has_earnings_soon and r.days_to_earnings is not None and 0 <= r.days_to_earnings <= 7
in_earnings_window(r) ==
    /\ r.has_earnings_soon
    /\ r.days_to_earnings # NoInt
    /\ 0 <= r.days_to_earnings[1]
    /\ r.days_to_earnings[1] <= 7

\* variant: a straddle score of 40 is accepted too
straddle_accepted_at_40(r, cap) ==
    r.straddle_score >= 40 /\ LeFrac(r.current_price, max_straddle_stock_price(cap))

\* r.straddle_score > 40 and r.current_price <= self.max_straddle_stock_price
straddle_accepted(r, cap) ==
    r.straddle_score > 40 /\ LeFrac(r.current_price, max_straddle_stock_price(cap))

\* variant: an expected move of exactly 2.0 % still counts as calm
is_calm_up_to_2(r) == ~r.has_earnings_soon /\ r.expected_move_pct <= 200

\* elif not r.has_earnings_soon and r.expected_move_pct < 2.0
is_calm(r) == ~r.has_earnings_soon /\ r.expected_move_pct < 200

\* variant: the strategy decision without "if not r.options_liquid: continue"
category_unfiltered(r, cap) ==
    IF in_earnings_window(r)
    THEN (IF straddle_accepted(r, cap) THEN "straddle" ELSE "none")
    ELSE IF is_calm(r)
    THEN (IF r.iron_condor_score > 50 THEN "iron_condor" ELSE "none")
    ELSE "none"

\* the list one pass of the loop body appends r to
category(r, cap) ==
    IF ~r.options_liquid THEN "none"
    ELSE IF in_earnings_window(r)
    THEN (IF straddle_accepted(r, cap) THEN "straddle" ELSE "none")
    ELSE IF is_calm(r)
    THEN (IF r.iron_condor_score > 50 THEN "iron_condor" ELSE "none")
    ELSE "none"

\* sorted(seq, key=lambda x: x.<key>, reverse=True): descending, and
\* elements with equal keys keep their order
RECURSIVE sorted_reverse(_, _)
sorted_reverse(seq, key) ==
    IF seq = <<>> THEN <<>>
    ELSE LET n == Len(seq)
             before == sorted_reverse(SubSeq(seq, 1, n - 1), key)
             x == seq[n]
             pos == Cardinality({i \in 1..Len(before) : before[i][key] >= x[key]})
         IN  SubSeq(before, 1, pos) \o <<x>> \o SubSeq(before, pos + 1, Len(before))

\* seq[:n]
Take(seq, n) == SubSeq(seq, 1, Min(n, Len(seq)))

\* variant: the first TopN candidates are kept and then sorted
rank_bucket_truncate_first(cands, key) == sorted_reverse(Take(cands, TopN), key)

rank_bucket(cands, key) == Take(sorted_reverse(cands, key), TopN)

\* variant: each bucket is filled by its own score threshold
categorize_by_score(rs, cap) ==
    LET IsCondor(r) == r.options_liquid /\ r.iron_condor_score > 50
        IsStraddle(r) == r.options_liquid /\ r.straddle_score > 40
    IN  [iron_condor |-> rank_bucket(SelectSeq(rs, IsCondor), "iron_condor_score"),
         straddle |-> rank_bucket(SelectSeq(rs, IsStraddle), "straddle_score")]

categorize(rs, cap) ==
    LET IsCondor(r) == category(r, cap) = "iron_condor"
        IsStraddle(r) == category(r, cap) = "straddle"
    IN  [iron_condor |-> rank_bucket(SelectSeq(rs, IsCondor), "iron_condor_score"),
         straddle |-> rank_bucket(SelectSeq(rs, IsStraddle), "straddle_score")]

\* the longest list of results that is enumerated
MaxResults == 6

\* the fields of a ScreenerResult the categorization reads, without the symbol
ResultKinds ==
    [current_price : {5000, 10000, 16666, 16667},
     iron_condor_score : {50, 51},
     straddle_score : {40, 41, 60},
     expected_move_pct : {199, 200, 350},
     has_earnings_soon : BOOLEAN,
     days_to_earnings : {NoInt, Some(-1), Some(0), Some(7), Some(8)},
     options_liquid : BOOLEAN]

\* candidates that differ in bucket and score only
RankKinds ==
    {[current_price |-> 5000, iron_condor_score |-> sc, straddle_score |-> sc,
      expected_move_pct |-> 100, has_earnings_soon |-> e,
      days_to_earnings |-> IF e THEN Some(2) ELSE NoInt, options_liquid |-> TRUE] :
        sc \in {60, 80}, e \in BOOLEAN}

\* the result of the i-th symbol of the watchlist
WithSymbol(kind, i) ==
    [symbol |-> i] @@ kind

ResultLists(kinds, n) ==
    UNION {{[i \in 1..k |-> WithSymbol(f[i], i)] : f \in [1..k -> kinds]} : k \in 0..n}

InitCategorize ==
    /\ \/ results \in ResultLists(ResultKinds, 1)
       \/ results \in ResultLists(RankKinds, MaxResults)
    /\ capital \in {5000, 3000}
    /\ buckets = NoneVal
    /\ SignalIdle /\ ScorerIdle /\ MovementIdle /\ HistoryIdle /\ BatchIdle
    /\ pc = "ready"

\* screen_all, from "WICHTIG: Jedes Symbol nur in EINER Kategorie!" to its return
Categorize ==
    /\ pc = "ready"
    /\ buckets' = categorize(results, capital)
    /\ pc' = "done"
    /\ UNCHANGED <<results, capital, signalVars, scorerVars, movementVars, historyVars, batchVars>>

NextCategorize == Categorize

SpecCategorize == InitCategorize /\ [][NextCategorize]_vars

-----------------------------------------------------------------------------
(* MovementScreener._calculate_movement_score *)

\* Scores are hundredths of a point (100 points = 10000); expected_move
\* is hundredths of a percent and iv_percentile whole points.

\* variant: the news term is not capped
_calculate_movement_score_news_uncapped(expected_move, iv_percentile, news_data, earnings_info) ==
    LET s1 == Min(expected_move * 5, 4000)
        s2 == s1 + iv_percentile * 20
        s3 == s2 + news_data.count * 200
        s4 == s3 + Min(Abs(news_data.score) * 300, 1500)
        days == earnings_info.days_to_earnings[1]
        s5 == IF earnings_info.has_earnings_soon
              THEN IF 0 <= days /\ days <= 3 THEN s4 + 1000
                   ELSE IF 4 <= days /\ days <= 7 THEN s4 + 700
                   ELSE s4 + 400
              ELSE s4
    IN  Min(s5, 10000)

\* the IV term (iv_percentile / 100) * 20 has no min() of its own
_calculate_movement_score(expected_move, iv_percentile, news_data, earnings_info) ==
    LET s1 == Min(expected_move * 5, 4000)
        s2 == s1 + iv_percentile * 20
        s3 == s2 + Min(news_data.count * 200, 1500)
        s4 == s3 + Min(Abs(news_data.score) * 300, 1500)
        days == earnings_info.days_to_earnings[1]
        s5 == IF earnings_info.has_earnings_soon
              THEN IF 0 <= days /\ days <= 3 THEN s4 + 1000
                   ELSE IF 4 <= days /\ days <= 7 THEN s4 + 700
                   ELSE s4 + 400
              ELSE s4
    IN  Min(s5, 10000)

\* MovementScreener._check_earnings: days_to_earnings is None without an
\* earnings date, and has_earnings_soon is -1 <= days_to <= 10
MovementEarnings ==
    {[has_earnings_soon |-> FALSE, days_to_earnings |-> NoInt]}
    \cup {[has_earnings_soon |-> (-1 <= d /\ d <= 10), days_to_earnings |-> Some(d)] :
            d \in {-2, -1, 0, 3, 4, 7, 8, 10, 11}}

\* _analyze_news reads at most ten headlines: count in 0..10 and
\* |score| <= count
MovementNews ==
    {n \in [count : {0, 2, 7, 8, 10}, score : {-10, -5, -2, 0, 2, 5, 6}] :
        Abs(n.score) <= n.count}

\* _calculate_expected_move is a straddle price over the spot, at least 0;
\* _get_iv_percentile is a share of the year's readings, 0 to 100
MovementInputs ==
    [expected_move : {0, 300, 799, 800, 801, 2000},
     iv_percentile : {0, 50, 100},
     news_data : MovementNews,
     earnings_info : MovementEarnings]

InitMovement ==
    /\ movement_input \in MovementInputs
    /\ movement_score = NoneVal
    /\ SignalIdle /\ ScorerIdle /\ ScreenerIdle /\ HistoryIdle /\ BatchIdle
    /\ pc = "ready"

\* _analyze_symbol: score = self._calculate_movement_score(expected_move,
\* iv_percentile, news_data, earnings_info)
CalculateMovementScore ==
    /\ pc = "ready"
    /\ movement_score' =
            _calculate_movement_score(movement_input.expected_move,
                movement_input.iv_percentile, movement_input.news_data,
                movement_input.earnings_info)
    /\ pc' = "done"
    /\ UNCHANGED <<movement_input, signalVars, scorerVars, screenerVars, historyVars, batchVars>>

NextMovement == CalculateMovementScore

SpecMovement == InitMovement /\ [][NextMovement]_vars

-----------------------------------------------------------------------------
(* WebsiteGenerator._save_to_history *)

\* history = history[:30]
HistoryCap == 30

\* history.json does not exist
NoFile == [content |-> "missing", records |-> <<>>]

\* history.json exists and json.load raises on it
Unreadable == [content |-> "unreadable", records |-> <<>>]

\* history.json as json.dump(history, f, ...) writes it
Dumped(history) == [content |-> "json", records |-> history]

\* datetime.isoformat(): the text of the timestamp t
isoformat(t) == <<"iso", t>>

\* IronCondorSignal.to_dict(): the fields by name, generated_at as text.
\* json.dump and json.load give these values back as they are.
to_dict(sig) == [generated_at |-> isoformat(sig.generated_at), is_valid |-> sig.is_valid]

\* Bestehende Historie laden
load_for_append(file) == IF file.content = "json" THEN file.records ELSE <<>>

\* variant: history[-30:], the 30 records at the end of the list
keep_recent_tail(history) ==
    SubSeq(history, Max(1, Len(history) - HistoryCap + 1), Len(history))

\* Nur letzte 30 Tage behalten: history[:30]
keep_recent(history) == Take(history, HistoryCap)

_save_to_history(file, sig) ==
    Dumped(keep_recent(<<to_dict(sig)>> \o load_for_append(file)))

\* the most calls of _save_to_history that are followed
MaxAppends == 32

\* the most invalid signals among them
MaxInvalid == 1

\* the signal of the n-th run
SignalOfRun(n, valid) == [generated_at |-> n, is_valid |-> valid]

InitHistory ==
    /\ history_file \in {NoFile, Unreadable}
    /\ appended = <<>>
    /\ SignalIdle /\ ScorerIdle /\ ScreenerIdle /\ MovementIdle /\ BatchIdle
    /\ pc = "ready"

\* generate: self._save_to_history(current_signal)
SaveToHistory ==
    /\ Len(appended) < MaxAppends
    /\ \E valid \in BOOLEAN :
          LET sig == SignalOfRun(Len(appended) + 1, valid) IN
          /\ valid \/ Cardinality({i \in 1..Len(appended) : ~appended[i].is_valid}) < MaxInvalid
          /\ history_file' = _save_to_history(history_file, sig)
          /\ appended' = Append(appended, sig)
    /\ UNCHANGED <<signalVars, scorerVars, screenerVars, movementVars, batchVars, pc>>

NextHistory == SaveToHistory

SpecHistory == InitHistory /\ [][NextHistory]_vars

-----------------------------------------------------------------------------
(* StockScreener.screen_all and MovementScreener.screen_all: the loop *)

\* what the call for one symbol ends with: an exception that reaches
\* screen_all's except clause, None, or a result
Escapes == [outcome |-> "raise", result |-> NoneVal]

ReturnsNone == [outcome |-> "none", result |-> NoneVal]

ReturnsResult(r) == [outcome |-> "result", result |-> r]

\* Empfohlene Strategie
recommended_strategy(iron_condor_score, straddle_score) ==
    IF iron_condor_score > straddle_score /\ iron_condor_score > 50 THEN "IRON_CONDOR"
    ELSE IF straddle_score > iron_condor_score /\ straddle_score > 50 THEN "STRADDLE"
    ELSE "NONE"

\* StockScreener.screen_symbol over the provider's data d for the symbol.
\* d.fails stands for an exception outside the try blocks of
\* screen_symbol and its helpers.
screen_symbol(symbol, d) ==
    IF ~d.info_ok THEN ReturnsNone
    ELSE IF d.current_price = 0 THEN ReturnsNone
    ELSE IF d.fails THEN Escapes
    ELSE
    LET sc == _calculate_scores(d.earnings, d.iv, d.liquidity, d.avg_volume) IN
    IF sc.raised # NoneVal THEN Escapes
    ELSE ReturnsResult(
        [symbol |-> symbol,
         current_price |-> d.current_price,
         iron_condor_score |-> sc.ic_score,
         straddle_score |-> sc.st_score,
         recommended_strategy |-> recommended_strategy(sc.ic_score, sc.st_score),
         expected_move_pct |-> DictGet(d.iv, "expected_move", 0),
         has_earnings_soon |-> DictGet(d.earnings, "has_earnings_soon", FALSE),
         days_to_earnings |-> DictGet(d.earnings, "days_to_earnings", NoInt),
         options_liquid |-> DictGet(d.liquidity, "is_liquid", FALSE)])

\* MovementScreener._analyze_symbol over the provider's data d
_analyze_symbol(symbol, d) ==
    IF ~d.info_ok THEN ReturnsNone
    ELSE IF d.current_price = 0 THEN ReturnsNone
    ELSE IF d.expected_move = NoInt THEN ReturnsNone
    ELSE IF d.fails THEN Escapes
    ELSE ReturnsResult(
        [symbol |-> symbol,
         current_price |-> d.current_price,
         expected_move_pct |-> d.expected_move[1],
         iv_percentile |-> d.iv_percentile,
         news_count |-> d.news_data.count,
         sentiment_score |-> d.news_data.score,
         has_earnings_soon |-> d.earnings_info.has_earnings_soon,
         days_to_earnings |-> d.earnings_info.days_to_earnings,
         movement_score |-> _calculate_movement_score(d.expected_move[1], d.iv_percentile,
                                                      d.news_data, d.earnings_info)])

\* variant: an exception ends the loop
next_symbol_break_on_error(pos, outcome, n) ==
    IF outcome = "raise" THEN n + 1 ELSE pos + 1

\* the for loop of screen_all goes on to the next symbol, whatever the
\* call for this one ended with
next_symbol(pos, outcome, n) == pos + 1

\* if result: results.append(result)
stock_collect(acc, out) ==
    IF out.outcome = "result" THEN Append(acc, out.result) ELSE acc

\* variant: a score of exactly 30 is kept too
movement_collect_at_30(acc, out) ==
    IF out.outcome = "result" /\ out.result.movement_score >= 3000
    THEN Append(acc, out.result) ELSE acc

\* if candidate and candidate.movement_score > 30: candidates.append(candidate)
movement_collect(acc, out) ==
    IF out.outcome = "result" /\ out.result.movement_score > 3000
    THEN Append(acc, out.result) ELSE acc

\* the longest watchlist or universe that is enumerated
MaxUniverse == 3

Symbols == {"AAPL", "GME", "SPY"}

\* a symbol may be listed twice, as NKE, XOM and CVX are in DEFAULT_UNIVERSE
Universes == UNION {[1..k -> Symbols] : k \in 0..MaxUniverse}

StockDatum(info_ok, price, fails, e, v, l, vol) ==
    [info_ok |-> info_ok, current_price |-> price, fails |-> fails,
     earnings |-> e, iv |-> v, liquidity |-> l, avg_volume |-> vol]

NoEarnings == [has_earnings_soon |-> FALSE, earnings_date |-> NoneVal, days_to_earnings |-> NoInt]

EarningsIn(d) ==
    [has_earnings_soon |-> (-1 <= d /\ d <= 7), earnings_date |-> "date",
     days_to_earnings |-> Some(d)]

LiquidOptions == [is_liquid |-> TRUE, avg_volume |-> 500, spread_pct |-> 500]

\* what the provider can hold for a symbol of the watchlist: no info, no
\* price, data on which the analysis fails, a calm stock and two stocks
\* with earnings ahead
StockData ==
    {StockDatum(FALSE, 5000, FALSE, NoEarnings, [iv_percentile |-> 50, expected_move |-> 0],
                LiquidOptions, 20000000),
     StockDatum(TRUE, 0, FALSE, NoEarnings, [iv_percentile |-> 50, expected_move |-> 0],
                LiquidOptions, 20000000),
     StockDatum(TRUE, 5000, TRUE, NoEarnings, [iv_percentile |-> 50, expected_move |-> 100],
                LiquidOptions, 20000000),
     StockDatum(TRUE, 5000, FALSE, NoEarnings, [iv_percentile |-> 50, expected_move |-> 100],
                LiquidOptions, 20000000),
     StockDatum(TRUE, 5000, FALSE, EarningsIn(0), [iv_percentile |-> 50, expected_move |-> 350],
                LiquidOptions, 20000000),
     StockDatum(TRUE, 5000, FALSE, EarningsIn(3), [iv_percentile |-> 50, expected_move |-> 350],
                LiquidOptions, 20000000)}

MovementDatum(info_ok, price, em, fails, ivp, news, e) ==
    [info_ok |-> info_ok, current_price |-> price, expected_move |-> em, fails |-> fails,
     iv_percentile |-> ivp, news_data |-> news, earnings_info |-> e]

NoMovementEarnings == [has_earnings_soon |-> FALSE, days_to_earnings |-> NoInt]

\* the same for a symbol of the universe: no info, no option chain, data
\* on which the analysis fails, a quiet stock with a score of exactly 30
\* and two stocks that move
MovementData ==
    {MovementDatum(FALSE, 5000, Some(300), FALSE, 50, [count |-> 0, score |-> 0],
                   NoMovementEarnings),
     MovementDatum(TRUE, 5000, NoInt, FALSE, 50, [count |-> 0, score |-> 0],
                   NoMovementEarnings),
     MovementDatum(TRUE, 5000, Some(300), TRUE, 50, [count |-> 0, score |-> 0],
                   NoMovementEarnings),
     MovementDatum(TRUE, 5000, Some(200), FALSE, 50, [count |-> 5, score |-> 0],
                   NoMovementEarnings),
     MovementDatum(TRUE, 5000, Some(500), FALSE, 50, [count |-> 7, score |-> 2],
                   NoMovementEarnings),
     MovementDatum(TRUE, 5000, Some(900), FALSE, 100, [count |-> 10, score |-> -6],
                   [has_earnings_soon |-> TRUE, days_to_earnings |-> Some(1)])}

InitScreenAll ==
    /\ \/ /\ screener = "StockScreener"
          /\ market \in [Symbols -> StockData]
          /\ results = <<>> /\ capital = 5000 /\ buckets = NoneVal
          /\ candidates = NoneVal
       \/ /\ screener = "MovementScreener"
          /\ market \in [Symbols -> MovementData]
          /\ candidates = <<>>
          /\ ScreenerIdle
    /\ universe \in Universes
    /\ cursor = 1
    /\ analysed = <<>>
    /\ SignalIdle /\ ScorerIdle /\ MovementIdle /\ HistoryIdle
    /\ pc = "ready"

\* StockScreener.screen_all: one pass of "for symbol in self.watchlist"
StockScreenSymbol ==
    /\ pc = "ready" /\ screener = "StockScreener" /\ cursor <= Len(universe)
    /\ LET symbol == universe[cursor]
           out == screen_symbol(symbol, market[symbol])
       IN  /\ results' = stock_collect(results, out)
           /\ analysed' = Append(analysed, symbol)
           /\ cursor' = next_symbol(cursor, out.outcome, Len(universe))
    /\ UNCHANGED <<screener, universe, market, candidates, capital, buckets, pc,
                   signalVars, scorerVars, movementVars, historyVars>>

\* StockScreener.screen_all after the loop: the categorization
StockCategorize ==
    /\ pc = "ready" /\ screener = "StockScreener" /\ cursor > Len(universe)
    /\ buckets' = categorize(results, capital)
    /\ pc' = "done"
    /\ UNCHANGED <<batchVars, results, capital,
                   signalVars, scorerVars, movementVars, historyVars>>

\* MovementScreener.screen_all: one pass of "for i, symbol in enumerate(self.universe, 1)"
MovementAnalyzeSymbol ==
    /\ pc = "ready" /\ screener = "MovementScreener" /\ cursor <= Len(universe)
    /\ LET symbol == universe[cursor]
           out == _analyze_symbol(symbol, market[symbol])
       IN  /\ candidates' = movement_collect(candidates, out)
           /\ analysed' = Append(analysed, symbol)
           /\ cursor' = next_symbol(cursor, out.outcome, Len(universe))
    /\ UNCHANGED <<screener, universe, market, pc,
                   signalVars, scorerVars, screenerVars, movementVars, historyVars>>

\* MovementScreener.screen_all after the loop:
\* candidates.sort(key=lambda x: x.movement_score, reverse=True)
MovementSort ==
    /\ pc = "ready" /\ screener = "MovementScreener" /\ cursor > Len(universe)
    /\ candidates' = sorted_reverse(candidates, "movement_score")
    /\ pc' = "done"
    /\ UNCHANGED <<screener, universe, market, cursor, analysed,
                   signalVars, scorerVars, screenerVars, movementVars, historyVars>>

NextScreenAll ==
    \/ StockScreenSymbol
    \/ StockCategorize
    \/ MovementAnalyzeSymbol
    \/ MovementSort

SpecScreenAll == InitScreenAll /\ [][NextScreenAll]_vars

-----------------------------------------------------------------------------
(* StockScreener.screen_all over a watchlist of one symbol, with every *)
(* combination of what the helpers of screen_symbol return             *)

\* _check_earnings: no date found, or a date d days ahead
EarningsInfos == {NoEarnings} \cup {EarningsIn(d) : d \in {-2, -1, 0, 1, 2, 3, 4, 7, 8}}

\* _get_iv_info: both keys are always set; the percentile is 50 or
\* min(100, max(0, avg_iv * 200)), the move is rounded to two decimals
IvInfos ==
    {[iv_percentile |-> p, expected_move |-> m] :
        p \in {29, 30, 50, 70, 71}, m \in {0, 149, 150, 199, 200, 299, 300}}

\* _check_options_liquidity: is_liquid needs a spread below 20 %
LiquidityInfos ==
    {[is_liquid |-> TRUE, avg_volume |-> 500, spread_pct |-> 500],
     [is_liquid |-> TRUE, avg_volume |-> 500, spread_pct |-> 1500],
     [is_liquid |-> FALSE, avg_volume |-> 0, spread_pct |-> 10000]}

\* what the provider can hold for the symbol when the analysis goes through
ScreenedData ==
    {StockDatum(TRUE, price, FALSE, e, v, l, vol) :
        price \in {5000, 16666, 16667}, e \in EarningsInfos, v \in IvInfos,
        l \in LiquidityInfos, vol \in {999999, 5000000, 10000001}}

InitScreenSymbol ==
    /\ screener = "StockScreener"
    /\ universe \in {<<sym>> : sym \in Symbols}
    /\ market \in {[sym \in Symbols |-> d] : d \in ScreenedData}
    /\ results = <<>> /\ capital = 5000 /\ buckets = NoneVal
    /\ candidates = NoneVal
    /\ cursor = 1
    /\ analysed = <<>>
    /\ SignalIdle /\ ScorerIdle /\ MovementIdle /\ HistoryIdle
    /\ pc = "ready"

NextScreenSymbol ==
    \/ StockScreenSymbol
    \/ StockCategorize

SpecScreenSymbol == InitScreenSymbol /\ [][NextScreenSymbol]_vars

-----------------------------------------------------------------------------
(* Properties of generate_signal, checked under SpecSignal *)

\* generate_signal returned a signal
SignalReturned == pc = "done" /\ raised = NoneVal

PremiumReason == "Keine gueltigen Preise fuer gewaehlte Strikes"

\* C2: an invalid signal has all four strikes, all four premiums,
\* net_credit, max_loss, max_profit, both breakevens,
\* recommended_contracts, total_risk and risk_percent equal to 0 and a
\* non-empty rejection_reason; a valid signal has no rejection_reason.
C2_InvalidSignalIsZeroed ==
    SignalReturned =>
        /\ ~signal.is_valid =>
            /\ signal.short_put_strike = 0 /\ signal.long_put_strike = 0
            /\ signal.short_call_strike = 0 /\ signal.long_call_strike = 0
            /\ signal.short_put_premium = 0 /\ signal.long_put_premium = 0
            /\ signal.short_call_premium = 0 /\ signal.long_call_premium = 0
            /\ signal.net_credit = 0 /\ signal.max_loss = 0 /\ signal.max_profit = 0
            /\ signal.breakeven_lower = 0 /\ signal.breakeven_upper = 0
            /\ signal.recommended_contracts = 0 /\ signal.total_risk = 0
            /\ signal.risk_percent.n = 0
            /\ signal.rejection_reason \notin {NoneVal, ""}
        /\ signal.is_valid => signal.rejection_reason = NoneVal

\* a signal rejected at the last gate, after strikes and premiums were resolved
C2_Witness ==
    SignalReturned /\ ~signal.is_valid /\ signal.rejection_reason = PremiumReason

\* C3: every valid signal has long_put_strike < short_put_strike <
\* current_price < short_call_strike < long_call_strike, and with
\* net_credit > 0 also breakeven_lower < current_price < breakeven_upper.
C3_StrikesBracketSpot ==
    (SignalReturned /\ signal.is_valid) =>
        /\ signal.long_put_strike < signal.short_put_strike
        /\ signal.short_put_strike < signal.current_price
        /\ signal.current_price < signal.short_call_strike
        /\ signal.short_call_strike < signal.long_call_strike
        /\ signal.net_credit > 0 =>
            /\ signal.breakeven_lower < signal.current_price
            /\ signal.current_price < signal.breakeven_upper

\* a valid signal with a credit whose put wing is not short - wing_width:
\* the wing came from the fallback over an unsorted chain
C3_Witness ==
    /\ SignalReturned /\ signal.is_valid /\ signal.net_credit > 0
    /\ signal.long_put_strike # signal.short_put_strike - config.wing_width
    /\ \E i \in 1..Len(snapshot.puts) - 1 :
            snapshot.puts[i].strike > snapshot.puts[i + 1].strike

\* C4: generate_signal never raises: whatever the snapshot, a call ends
\* with a returned signal.
C4_NeverRaises == pc = "done" => raised = NoneVal

\* C5: every valid signal recommends at least one contract.
C5_AtLeastOneContract ==
    (SignalReturned /\ signal.is_valid) => signal.recommended_contracts >= 1

\* a valid signal whose max_loss is above the risk budget or negative,
\* so that int(max_risk_dollar / max_loss) is below 1
C5_Witness ==
    /\ SignalReturned /\ signal.is_valid /\ signal.recommended_contracts = 1
    /\ \/ signal.max_loss < 0
       \/ signal.max_loss * 100 > config.capital * config.max_risk_percent

\* the gates that fail on the snapshot, numbered in the order of the claim
FailingGates ==
    {g \in 1..8 :
        \/ g = 1 /\ snapshot.vix > config.max_vix
        \/ g = 2 /\ snapshot.vix < config.min_vix
        \/ g = 3 /\ snapshot.has_earnings_today
        \/ g = 4 /\ snapshot.has_fed_event
        \/ g = 5 /\ snapshot.has_economic_data
        \/ g = 6 /\ snapshot.iv_percentile < config.min_iv_percentile
        \/ g = 7 /\ (snapshot.calls = <<>> \/ snapshot.puts = <<>>)
        \/ g = 8 /\ \/ \A i \in 1..Len(snapshot.puts) :
                            snapshot.puts[i].strike >= snapshot.price
                    \/ \A i \in 1..Len(snapshot.calls) :
                            snapshot.calls[i].strike <= snapshot.price}

GateReasons ==
    <<{"VIX zu hoch"}, {"VIX zu niedrig"},
      {"SPY/SPX Earnings-bezogene Volatilitaet erwartet"},
      {"Fed-Entscheidung heute - erhoehte Volatilitaet erwartet"},
      {"Wichtige Wirtschaftsdaten heute (CPI, Jobs, etc.)"},
      {"IV Percentile zu niedrig"},
      {"Keine Optionsdaten verfuegbar"},
      {"Fehler bei Strike-Berechnung: Keine Put-Strikes unter aktuellem Kurs verfuegbar",
       "Fehler bei Strike-Berechnung: Keine Call-Strikes ueber aktuellem Kurs verfuegbar"}>>

\* C6: the gates are evaluated in the order VIX above max, VIX below
\* min, earnings, Fed event, economic data, IV percentile, empty chain,
\* strike selection, premium lookup; the signal is rejected with the
\* reason of the earliest failing gate, and a VIX above max_vix always
\* gives "VIX zu hoch".
C6_FirstFailingGateRejects ==
    SignalReturned =>
        /\ FailingGates # {} =>
            /\ ~signal.is_valid
            /\ LET first == CHOOSE g \in FailingGates : \A h \in FailingGates : g <= h
               IN  signal.rejection_reason \in GateReasons[first]
        /\ FailingGates = {} =>
            signal.is_valid \/ signal.rejection_reason = PremiumReason
        /\ snapshot.vix > config.max_vix => signal.rejection_reason = "VIX zu hoch"

\* VIX above the maximum while four later gates fail as well
C6_Witness ==
    /\ SignalReturned /\ signal.rejection_reason = "VIX zu hoch"
    /\ {1, 3, 5, 6, 7} \subseteq FailingGates

Levels == {"LOW", "MEDIUM", "HIGH"}

\* C15: every signal generate_signal returns, valid or invalid, has
\* risk_level and confidence in {LOW, MEDIUM, HIGH}.
C15_LevelsAreLowMediumHigh ==
    SignalReturned => signal.risk_level \in Levels /\ signal.confidence \in Levels

LiquidityWarning == "Warnung: Geringe Liquiditaet - groessere Spreads moeglich"

\* the rows of the two short legs of the returned signal
ShortLegRows ==
    {snapshot.puts[i] : i \in {j \in 1..Len(snapshot.puts) :
                                snapshot.puts[j].strike = signal.short_put_strike}}
    \cup {snapshot.calls[i] : i \in {j \in 1..Len(snapshot.calls) :
                                snapshot.calls[j].strike = signal.short_call_strike}}

\* C18: the liquidity check passes only when the short legs have open
\* interest > 100 or volume > 50 and a bid-ask spread below 15 % of the
\* bid; a signal that fails it carries the liquidity warning and stays
\* valid.
C18_LiquidityCheck ==
    (SignalReturned /\ signal.is_valid) =>
        /\ LiquidityWarning \notin Range(signal.notes) =>
                \A row \in ShortLegRows :
                    /\ row.openInterest > 100 \/ row.volume > 50
                    /\ (Has(row, "bid") /\ Has(row, "ask") /\ row.bid > 0) =>
                            (row.ask - row.bid) * 100 < 15 * row.bid
        /\ (\E row \in ShortLegRows :
                /\ Has(row, "bid") /\ Has(row, "ask") /\ row.bid > 0
                /\ (row.ask - row.bid) * 100 > 15 * row.bid) =>
                LiquidityWarning \in Range(signal.notes)

\* C19: for every valid signal net_credit = (short_put_premium +
\* short_call_premium) - (long_put_premium + long_call_premium),
\* max_loss = (short_put_strike - long_put_strike - net_credit) * 100,
\* max_profit = net_credit * 100, breakeven_lower = short_put_strike -
\* net_credit and breakeven_upper = short_call_strike + net_credit, over
\* the strikes and premiums stored in the signal.
C19_Economics ==
    (SignalReturned /\ signal.is_valid) =>
        /\ signal.net_credit =
                (signal.short_put_premium + signal.short_call_premium)
                    - (signal.long_put_premium + signal.long_call_premium)
        /\ signal.max_loss =
                (signal.short_put_strike - signal.long_put_strike - signal.net_credit) * 100
        /\ signal.max_profit = signal.net_credit * 100
        /\ signal.breakeven_lower = signal.short_put_strike - signal.net_credit
        /\ signal.breakeven_upper = signal.short_call_strike + signal.net_credit

\* a valid signal that paid for both long legs, with a put wing that is
\* not the configured wing_width
C19_Witness ==
    /\ SignalReturned /\ signal.is_valid
    /\ signal.long_put_premium > 0 /\ signal.long_call_premium > 0
    /\ signal.short_put_premium # signal.short_call_premium
    /\ signal.short_put_strike - signal.long_put_strike # config.wing_width

\* floor(a / b) for b # 0
FloorDiv(a, b) == IF b > 0 THEN a \div b ELSE (-a) \div (-b)

RECURSIVE Gcd(_, _)
Gcd(a, b) == IF b = 0 THEN a ELSE Gcd(b, a % b)

\* the fractions f and g are the same number
SameFrac(f, g) ==
    LET gf == Gcd(Abs(f.n), f.d)
        gg == Gcd(Abs(g.n), g.d)
    IN  f.n \div gf = g.n \div gg /\ f.d \div gf = g.d \div gg

\* C20: for every valid signal recommended_contracts = max(1,
\* floor((capital * max_risk_percent / 100) / max_loss)), total_risk =
\* recommended_contracts * max_loss and risk_percent = total_risk /
\* capital * 100.
C20_PositionSizing ==
    (SignalReturned /\ signal.is_valid) =>
        /\ signal.recommended_contracts =
                Max(1, FloorDiv(config.capital * config.max_risk_percent,
                                100 * signal.max_loss))
        /\ signal.total_risk = signal.recommended_contracts * signal.max_loss
        /\ SameFrac(signal.risk_percent, Frac(signal.total_risk * 100, config.capital))

\* several contracts, and a risk budget that is no multiple of max_loss
C20_Witness ==
    /\ SignalReturned /\ signal.is_valid /\ signal.recommended_contracts >= 2
    /\ (config.capital * config.max_risk_percent) % (100 * signal.max_loss) # 0

\* the level that follows from VIX and from whether the ratio is above 4
\* and above 3
LevelOf(vix, above4, above3) ==
    IF vix > 22 \/ above4 THEN "HIGH"
    ELSE IF vix > 18 \/ above3 THEN "MEDIUM"
    ELSE "LOW"

\* signal.max_loss / signal.net_credit > k, for net_credit # 0
StoredRatioAbove(k) ==
    IF signal.net_credit > 0 THEN signal.max_loss > k * signal.net_credit
    ELSE signal.max_loss < k * signal.net_credit

\* C21 as stated: for every valid signal risk_level is HIGH if VIX > 22
\* or max_loss / net_credit > 4, otherwise MEDIUM if VIX > 18 or that
\* ratio > 3, otherwise LOW, over the max_loss and the net_credit stored
\* in the signal.
C21_RiskLevelAsStated ==
    (SignalReturned /\ signal.is_valid /\ signal.net_credit # 0) =>
        signal.risk_level =
            LevelOf(signal.vix, StoredRatioAbove(4), StoredRatioAbove(3))

\* max_loss / max_profit > k over the stored values, which is the loss
\* per share over the credit per share; infinite without a credit
RiskRewardAbove(k) ==
    signal.net_credit <= 0 \/ signal.max_loss > k * signal.max_profit

\* C21: for every valid signal risk_level is HIGH if VIX > 22 or R > 4,
\* otherwise MEDIUM if VIX > 18 or R > 3, otherwise LOW, where R is the
\* stored max_loss over the stored max_profit (the loss per share over
\* net_credit) when net_credit > 0 and is infinite when net_credit <= 0.
C21_RiskLevel ==
    (SignalReturned /\ signal.is_valid) =>
        signal.risk_level = LevelOf(signal.vix, RiskRewardAbove(4), RiskRewardAbove(3))

\* a LOW signal whose stored max_loss is more than 4 times its stored
\* net_credit
C21_Witness ==
    /\ SignalReturned /\ signal.is_valid /\ signal.risk_level = "LOW"
    /\ signal.net_credit > 0 /\ signal.max_loss > 4 * signal.net_credit

\* the strike of df, among the rows idxs, closest to tnum / tden, the
\* earliest row winning a tie
ClosestListed(df, idxs, tnum, tden) ==
    LET dist(i) == Abs(tden * df[i].strike - tnum)
        best == {i \in idxs : \A j \in idxs : dist(i) <= dist(j)}
    IN  df[CHOOSE i \in best : \A j \in best : i <= j].strike

Listed(df) == {df[i].strike : i \in 1..Len(df)}

RowPremium(row) ==
    IF "bid" \in DOMAIN row /\ "ask" \in DOMAIN row /\ row.bid > 0 /\ row.ask > 0
    THEN (row.bid + row.ask) \div 2
    ELSE IF "lastPrice" \in DOMAIN row THEN row.lastPrice
    ELSE 0

\* the rows of df that list the strike
RowsAt(df, strike) == {df[i] : i \in {j \in 1..Len(df) : df[j].strike = strike}}

\* the strikes among the rows idxs of df nearest to tnum / 1000: the
\* strikes the short leg can land on
NearestStrikes(df, idxs, tnum) ==
    {df[i].strike : i \in {k \in idxs : \A j \in idxs :
        Abs(1000 * df[k].strike - tnum) <= Abs(1000 * df[j].strike - tnum)}}

ShortPutChoices ==
    NearestStrikes(snapshot.puts,
                   {i \in 1..Len(snapshot.puts) : snapshot.puts[i].strike < snapshot.price},
                   985 * snapshot.price)

ShortCallChoices ==
    NearestStrikes(snapshot.calls,
                   {i \in 1..Len(snapshot.calls) : snapshot.calls[i].strike > snapshot.price},
                   1015 * snapshot.price)

\* the short leg at the strike has no premium above 0
Unpriced(df, strike) == \E row \in RowsAt(df, strike) : RowPremium(row) <= 0

\* C24: the premium of a leg is the mid of bid and ask when both are
\* above 0, otherwise the last-traded price when present, otherwise 0; a
\* snapshot that passes the earlier gates is rejected with the 'no valid
\* prices' reason exactly when the short put premium or the short call
\* premium is <= 0, and a long-leg premium of 0 does not reject it.
C24_Premiums ==
    SignalReturned =>
        /\ signal.is_valid =>
            /\ \A row \in RowsAt(snapshot.puts, signal.short_put_strike) :
                    signal.short_put_premium = RowPremium(row)
            /\ \A row \in RowsAt(snapshot.puts, signal.long_put_strike) :
                    signal.long_put_premium = RowPremium(row)
            /\ \A row \in RowsAt(snapshot.calls, signal.short_call_strike) :
                    signal.short_call_premium = RowPremium(row)
            /\ \A row \in RowsAt(snapshot.calls, signal.long_call_strike) :
                    signal.long_call_premium = RowPremium(row)
            /\ signal.short_put_premium > 0 /\ signal.short_call_premium > 0
        /\ signal.rejection_reason = PremiumReason =>
            /\ FailingGates = {}
            /\ \E sp \in ShortPutChoices, sc \in ShortCallChoices :
                    Unpriced(snapshot.puts, sp) \/ Unpriced(snapshot.calls, sc)
        /\ (/\ FailingGates = {}
            /\ \A sp \in ShortPutChoices, sc \in ShortCallChoices :
                    Unpriced(snapshot.puts, sp) \/ Unpriced(snapshot.calls, sc)) =>
            signal.rejection_reason = PremiumReason

\* a valid signal whose long put costs nothing and whose short put, in a
\* frame without a bid column, is priced at its last trade
C24_Witness ==
    /\ SignalReturned /\ signal.is_valid
    /\ signal.long_put_premium = 0
    /\ \E row \in RowsAt(snapshot.puts, signal.short_put_strike) :
            "bid" \notin DOMAIN row /\ signal.short_put_premium = row.lastPrice

\* C28: when confidence is assessed the notes hold at most one warning,
\* the liquidity warning, and the notes on VIX, expected move and risk
\* come after it; for every valid signal confidence is LOW iff
\* expected_move > 2, MEDIUM iff expected_move <= 2 and (the liquidity
\* warning is present or VIX > 20), and HIGH otherwise.
C28_Confidence ==
    (SignalReturned /\ signal.is_valid) =>
        LET warned == LiquidityWarning \in Range(signal.notes)
            medium == signal.expected_move <= 200 /\ (warned \/ signal.vix > 20)
        IN  /\ \A i \in 1..Len(signal.notes) : signal.notes[i] = LiquidityWarning => i = 1
            /\ signal.confidence = "LOW" <=> signal.expected_move > 200
            /\ signal.confidence = "MEDIUM" <=> medium
            /\ signal.confidence = "HIGH" <=> (signal.expected_move <= 200 /\ ~medium)

\* a MEDIUM signal with an expected move of exactly 2 % and a calm VIX
\* that carries the liquidity warning and two later notes
C28_Witness ==
    /\ SignalReturned /\ signal.is_valid /\ signal.confidence = "MEDIUM"
    /\ signal.expected_move = 200 /\ signal.vix <= 20
    /\ Len(signal.notes) = 3 /\ signal.notes[1] = LiquidityWarning

\* C29: for every valid signal with 0 < max_loss <= capital *
\* max_risk_percent / 100, total_risk <= capital * max_risk_percent / 100
\* and risk_percent <= max_risk_percent; risk_percent is above
\* max_risk_percent only when recommended_contracts was forced to its
\* minimum of 1.
C29_RiskWithinBudget ==
    (SignalReturned /\ signal.is_valid) =>
        LET budget100 == config.capital * config.max_risk_percent
            over == signal.risk_percent.n > config.max_risk_percent * signal.risk_percent.d
        IN  /\ (0 < signal.max_loss /\ 100 * signal.max_loss <= budget100) =>
                    /\ 100 * signal.total_risk <= budget100
                    /\ ~over
            /\ over =>
                    /\ signal.recommended_contracts = 1
                    /\ FloorDiv(budget100, 100 * signal.max_loss) < 1

\* several contracts that together stay below the risk budget
C29_Witness ==
    /\ SignalReturned /\ signal.is_valid /\ signal.max_loss > 0
    /\ signal.recommended_contracts >= 2
    /\ 100 * signal.total_risk < config.capital * config.max_risk_percent
    /\ signal.risk_percent.n > 0

-----------------------------------------------------------------------------
(* Properties of _calculate_scores, checked under SpecScore *)

\* C7: both scores returned by _calculate_scores lie in [0, 100].
C7_ScoresClamped ==
    (pc = "done" /\ scores.raised = NoneVal) =>
        /\ 0 <= scores.ic_score /\ scores.ic_score <= 100
        /\ 0 <= scores.st_score /\ scores.st_score <= 100

\* expected_move = 999 with earnings today and illiquid options: the
\* iron condor score is held at 0 and the straddle score at 100
C7_Witness ==
    /\ pc = "done" /\ scores.raised = NoneVal
    /\ DictGet(iv, "expected_move", 0) = 99900
    /\ DictGet(earnings, "has_earnings_soon", FALSE)
    /\ DictGet(earnings, "days_to_earnings", Some(999)) = Some(0)
    /\ ~DictGet(liquidity, "is_liquid", FALSE)
    /\ scores.ic_score = 0 /\ scores.st_score = 100

\* C8: _calculate_scores raises no exception for has_earnings_soon true
\* or false and days_to_earnings an integer, null or missing.
C8_NoException == pc = "done" => scores.raised = NoneVal

\* the inputs of the scoring table, with the defaults of a missing key
TableInput ==
    [has_earnings_soon |-> DictGet(earnings, "has_earnings_soon", FALSE),
     days |-> DictGet(earnings, "days_to_earnings", Some(999)),
     iv |-> DictGet(iv, "iv_percentile", 50),
     move |-> DictGet(iv, "expected_move", 0),
     liquid |-> DictGet(liquidity, "is_liquid", FALSE)]

\* days_to_earnings is the integer d
DaysIs(x, d) == x.days # NoInt /\ x.days[1] = d

DaysWithin(x, lo, hi) == x.days # NoInt /\ lo <= x.days[1] /\ x.days[1] <= hi

\* the adjustments of the scoring table to the straddle score
StraddleTable(x) ==
    (IF ~x.has_earnings_soon THEN 0
     ELSE IF DaysIs(x, 0) THEN 40
     ELSE IF DaysIs(x, 1) THEN 35
     ELSE IF DaysWithin(x, -1, 3) THEN 25
     ELSE 0)
    + (IF x.iv > 70 /\ x.move >= 200 THEN 15 ELSE IF x.iv < 30 THEN 10 ELSE 0)
    + (IF x.move >= 300 THEN 20 ELSE IF x.move >= 200 THEN 10 ELSE 0)
    + (IF x.liquid THEN 0 ELSE -20)
    + (IF avg_volume > 10000000 THEN 5 ELSE 0)

\* the adjustments of the scoring table to the iron condor score
CondorTable(x) ==
    (IF ~x.has_earnings_soon THEN 15
     ELSE IF DaysIs(x, 0) THEN -40
     ELSE IF DaysIs(x, 1) THEN -35
     ELSE IF DaysWithin(x, -1, 3) THEN -25
     ELSE 0)
    + (IF x.iv > 70 /\ x.move < 200 THEN 10 ELSE IF x.iv > 70 THEN -20 ELSE 0)
    + (IF x.move >= 300 THEN -40 ELSE IF x.move >= 200 THEN -20
       ELSE IF x.move < 150 THEN 15 ELSE 0)
    + (IF x.liquid THEN 0 ELSE -20)
    + (IF avg_volume > 10000000 THEN 5 ELSE 0)

\* C25: for every input the two scores of _calculate_scores are the
\* clamp to [0, 100] of 50 plus the adjustments of the scoring table for
\* earnings, IV regime, expected move, liquidity and average volume; a
\* wide spread or a low volume changes no score.
C25_ScoringTable ==
    pc = "done" =>
        /\ scores.raised = NoneVal
        /\ scores.ic_score = Max(0, Min(100, 50 + CondorTable(TableInput)))
        /\ scores.st_score = Max(0, Min(100, 50 + StraddleTable(TableInput)))

-----------------------------------------------------------------------------
(* Properties of screen_all's categorization, checked under SpecCategorize *)

Members(bucket) == {bucket[i].symbol : i \in 1..Len(bucket)}

\* C1: no symbol is in both the iron_condor and the straddle list.
C1_BucketsDisjoint ==
    pc = "done" => Members(buckets.iron_condor) \cap Members(buckets.straddle) = {}

\* both buckets have members
C1_Witness ==
    pc = "done" /\ buckets.iron_condor # <<>> /\ buckets.straddle # <<>>

\* the results eligible for the bucket named b
Eligible(b) == {i \in 1..Len(results) : category(results[i], capital) = b}

\* bucket b, ranked by the score field key, is a correct top TopN
RankedBucket(b, key) ==
    LET bucket == buckets[b] IN
    /\ Len(bucket) <= 5
    /\ Members(bucket) \subseteq Eligible(b)
    /\ \A i \in 1..Len(bucket) : bucket[i] = results[bucket[i].symbol]
    /\ \A i, j \in 1..Len(bucket) :
            i < j =>
                /\ bucket[i][key] >= bucket[j][key]
                /\ bucket[i][key] = bucket[j][key] => bucket[i].symbol < bucket[j].symbol
    /\ \A e \in Eligible(b) \ Members(bucket) :
            /\ Len(bucket) = 5
            /\ \A i \in 1..Len(bucket) : results[e][key] <= bucket[i][key]

\* C9: each bucket holds at most 5 candidates, in non-increasing order
\* of its score, equal scores in watchlist order, and no eligible
\* candidate left out has a higher score than a kept one.
C9_TopFiveAfterGlobalSort ==
    pc = "done" =>
        /\ RankedBucket("iron_condor", "iron_condor_score")
        /\ RankedBucket("straddle", "straddle_score")

\* six straddle candidates, the first two with the lower score: the
\* four later ones are ranked before them and the second is left out
C9_Witness ==
    /\ pc = "done" /\ Cardinality(Eligible("straddle")) = 6
    /\ results[1].straddle_score = 60 /\ results[2].straddle_score = 60
    /\ \A i \in 3..6 : results[i].straddle_score = 80
    /\ buckets.straddle[1].symbol = 3 /\ buckets.straddle[5].symbol = 1
    /\ 2 \notin Members(buckets.straddle)

\* the condition C10 gives for the Straddle bucket
StraddleCondition(r) ==
    /\ r.options_liquid
    /\ r.has_earnings_soon
    /\ r.days_to_earnings \in {Some(d) : d \in 0..7}
    /\ r.straddle_score > 40
    /\ 30 * r.current_price <= 100 * capital

\* C10: a candidate is eligible for the Straddle bucket iff it is
\* liquid, has_earnings_soon, days_to_earnings in [0,7], straddle_score
\* > 40 and current_price <= (capital * 0.10) / 3; an eligible candidate
\* is in the bucket unless five candidates of no lower score fill it,
\* and it is not in the Iron Condor bucket.
C10_StraddleEligibility ==
    pc = "done" =>
        \A i \in 1..Len(results) :
            /\ i \in Members(buckets.straddle) => StraddleCondition(results[i])
            /\ StraddleCondition(results[i]) =>
                /\ i \notin Members(buckets.iron_condor)
                /\ \/ i \in Members(buckets.straddle)
                   \/ /\ Len(buckets.straddle) = 5
                      /\ \A j \in 1..5 :
                            buckets.straddle[j].straddle_score >= results[i].straddle_score

\* capital 5000, a liquid candidate with earnings in 0 days, straddle
\* score 60 and price 50.00: in the Straddle bucket only
C10_Witness ==
    /\ pc = "done" /\ capital = 5000 /\ Len(results) = 1
    /\ results[1].options_liquid /\ results[1].has_earnings_soon
    /\ results[1].days_to_earnings = Some(0)
    /\ results[1].straddle_score = 60 /\ results[1].current_price = 5000
    /\ Members(buckets.straddle) = {1} /\ buckets.iron_condor = <<>>

\* the condition C11 gives for the Iron Condor bucket
CondorCondition(r) ==
    /\ r.options_liquid
    /\ ~in_earnings_window(r)
    /\ ~r.has_earnings_soon
    /\ r.expected_move_pct < 200
    /\ r.iron_condor_score > 50

\* C11: a candidate is eligible for the Iron Condor bucket iff it is
\* liquid, did not match the earnings branch, has_earnings_soon is
\* false, expected_move_pct < 2.0 and iron_condor_score > 50 (an
\* eligible candidate is in the bucket unless five candidates of no
\* lower score fill it); a candidate with no earnings soon and
\* expected_move_pct >= 2.0 is in neither bucket.
C11_CondorEligibility ==
    pc = "done" =>
        \A i \in 1..Len(results) :
            /\ i \in Members(buckets.iron_condor) => CondorCondition(results[i])
            /\ CondorCondition(results[i]) =>
                \/ i \in Members(buckets.iron_condor)
                \/ /\ Len(buckets.iron_condor) = 5
                   /\ \A j \in 1..5 :
                        buckets.iron_condor[j].iron_condor_score
                            >= results[i].iron_condor_score
            /\ (~results[i].has_earnings_soon /\ results[i].expected_move_pct >= 200) =>
                /\ i \notin Members(buckets.iron_condor)
                /\ i \notin Members(buckets.straddle)

\* a liquid candidate without earnings, iron condor score 51 and
\* straddle score 60, whose expected move is exactly 2.0 %: in no bucket
C11_Witness ==
    /\ pc = "done" /\ Len(results) = 1
    /\ results[1].options_liquid /\ ~results[1].has_earnings_soon
    /\ results[1].days_to_earnings = NoInt
    /\ results[1].expected_move_pct = 200
    /\ results[1].iron_condor_score = 51 /\ results[1].straddle_score = 60
    /\ buckets.iron_condor = <<>> /\ buckets.straddle = <<>>

\* C12: every candidate in either returned bucket has options_liquid
\* true, and a candidate with options_liquid false is in no bucket.
C12_BucketsHoldLiquidOnly ==
    pc = "done" =>
        /\ \A i \in 1..Len(buckets.iron_condor) : buckets.iron_condor[i].options_liquid
        /\ \A i \in 1..Len(buckets.straddle) : buckets.straddle[i].options_liquid
        /\ \A i \in 1..Len(results) :
                ~results[i].options_liquid =>
                    i \notin Members(buckets.iron_condor) \cup Members(buckets.straddle)

\* an illiquid candidate that passes every other test of the straddle
\* branch and is in no bucket
C12_Witness ==
    /\ pc = "done" /\ capital = 5000 /\ Len(results) = 1
    /\ ~results[1].options_liquid
    /\ results[1].has_earnings_soon /\ results[1].days_to_earnings = Some(0)
    /\ results[1].straddle_score = 60 /\ results[1].current_price = 5000
    /\ buckets.iron_condor = <<>> /\ buckets.straddle = <<>>

-----------------------------------------------------------------------------
(* Properties of _calculate_movement_score, checked under SpecMovement *)

\* the four capped terms of C17, in hundredths of a point
CappedTerms(m) ==
    Min(m.expected_move * 5, 4000) + Min(m.iv_percentile * 20, 2000)
        + Min(m.news_data.count * 200, 1500) + Min(Abs(m.news_data.score) * 300, 1500)

\* the earnings bonus as C17 words it: 10 for days in [0,3], 7 for days
\* in [4,7], 4 otherwise
BonusByDays(e) ==
    IF e.days_to_earnings # NoInt /\ 0 <= e.days_to_earnings[1] /\ e.days_to_earnings[1] <= 3
    THEN 1000
    ELSE IF e.days_to_earnings # NoInt /\ 4 <= e.days_to_earnings[1]
            /\ e.days_to_earnings[1] <= 7
    THEN 700
    ELSE 400

\* C17 as stated: the movement score is the sum of the four capped terms
\* and an earnings bonus of 10 for days in [0,3], 7 for days in [4,7], 4
\* otherwise, clamped to 100, and lies in [0,100].
C17_MovementScoreAsStated ==
    pc = "done" =>
        /\ movement_score =
                Min(CappedTerms(movement_input) + BonusByDays(movement_input.earnings_info),
                    10000)
        /\ 0 <= movement_score /\ movement_score <= 10000

\* C17, amended: the earnings bonus is added only when has_earnings_soon
\* is true (10 for days in [0,3], 7 for days in [4,7], 4 otherwise) and
\* is 0 when has_earnings_soon is false; the rest as stated.
C17_MovementScore ==
    pc = "done" =>
        /\ movement_score =
                Min(CappedTerms(movement_input)
                        + (IF movement_input.earnings_info.has_earnings_soon
                           THEN BonusByDays(movement_input.earnings_info) ELSE 0),
                    10000)
        /\ 0 <= movement_score /\ movement_score <= 10000

\* ten headlines, six more bullish than bearish, an expected move of
\* 20 % and no earnings in sight: three terms are held at their caps and
\* no bonus is added
C17_Witness ==
    /\ pc = "done"
    /\ movement_input.expected_move = 2000 /\ movement_input.iv_percentile = 50
    /\ movement_input.news_data.count = 10 /\ movement_input.news_data.score = 6
    /\ ~movement_input.earnings_info.has_earnings_soon
    /\ movement_score = 4000 + 1000 + 1500 + 1500

-----------------------------------------------------------------------------
(* Properties of _save_to_history, checked under SpecHistory *)

\* C13: after any sequence of appends the log holds at most 30
\* records, newest first: after n appends to an empty log it is the
\* last min(n, 30) signals in reverse order of appending, so the oldest
\* record is the one dropped.
C13_HistoryNewestFirstCapped ==
    LET n == Len(appended)
        k == Min(n, 30)
    IN  n > 0 =>
            /\ history_file.content = "json"
            /\ Len(history_file.records) <= 30
            /\ history_file.records[1] = to_dict(appended[n])
            /\ history_file.records = [i \in 1..k |-> to_dict(appended[n - i + 1])]

\* 32 appends: the log holds 30 records, the 3rd signal is its last
\* record and the first two are gone
C13_Witness ==
    /\ Len(appended) = 32 /\ Len(history_file.records) = 30
    /\ history_file.records[1] = to_dict(appended[32])
    /\ history_file.records[30] = to_dict(appended[3])

-----------------------------------------------------------------------------
(* Properties of the screen_all loops, checked under SpecScreenAll *)

\* what the analysis of symbol sym ends with
OutcomeOf(sym) ==
    IF screener = "StockScreener" THEN screen_symbol(sym, market[sym])
    ELSE _analyze_symbol(sym, market[sym])

Healthy(sym) == OutcomeOf(sym).outcome = "result"

\* the watchlist without the symbols whose analysis fails or finds no data
HealthyUniverse == SelectSeq(universe, Healthy)

\* the results of the symbols of HealthyUniverse, in its order
HealthyResults == [i \in 1..Len(HealthyUniverse) |-> OutcomeOf(HealthyUniverse[i]).result]

AboveMinimum(c) == c.movement_score > 3000

Passing == SelectSeq([i \in 1..Len(analysed) |-> OutcomeOf(analysed[i])],
                     LAMBDA out : out.outcome = "result" /\ out.result.movement_score > 3000)

\* the ways to lay n candidates out in another order
Orders(n) == {f \in [1..n -> 1..n] : \A i, j \in 1..n : i # j => f[i] # f[j]}

\* C30: MovementScreener.screen_all returns only candidates with
\* movement_score > 30, every one of them, in non-increasing order of
\* movement_score with equal scores in universe order, in one list; the
\* list is sorted only after every symbol of the universe was analysed.
C30_MovementRanking ==
    screener = "MovementScreener" =>
        /\ \A i \in 1..Len(candidates) : candidates[i].movement_score > 3000
        /\ buckets = NoneVal
        /\ pc = "ready" => candidates = [i \in 1..Len(Passing) |-> Passing[i].result]
        /\ pc = "done" =>
            /\ analysed = universe
            /\ Len(candidates) = Len(Passing)
            /\ \E f \in Orders(Len(candidates)) :
                    /\ \A i \in 1..Len(candidates) : candidates[i] = Passing[f[i]].result
                    /\ \A i, j \in 1..Len(candidates) :
                            i < j =>
                                \/ candidates[i].movement_score > candidates[j].movement_score
                                \/ /\ candidates[i].movement_score = candidates[j].movement_score
                                   /\ f[i] < f[j]

\* three candidates returned, the best of them analysed last, the two
\* others with equal scores; during the loop they stood in universe order
C30_Witness ==
    /\ pc = "done" /\ screener = "MovementScreener" /\ Len(candidates) = 3
    /\ candidates[1].symbol = universe[3]
    /\ candidates[2].symbol = universe[1] /\ candidates[3].symbol = universe[2]
    /\ candidates[1].movement_score > candidates[2].movement_score
    /\ candidates[2].movement_score = candidates[3].movement_score
    /\ candidates[2].symbol # candidates[3].symbol

-----------------------------------------------------------------------------
(* Properties of the results screen_symbol builds, checked under *)
(* SpecScreenSymbol                                               *)

\* the results screen_symbol has built so far
Built == Range(results)

\* liquid, no earnings soon and an expected move below 2.0 %
CalmAndLiquid(r) == r.options_liquid /\ ~r.has_earnings_soon /\ r.expected_move_pct < 200

\* C26: a result of screen_symbol that is liquid, has no earnings soon
\* and an expected move below 2.0 % has iron_condor_score >= 65 and
\* iron_condor_score > straddle_score; the threshold iron_condor_score >
\* 50 excludes no such candidate, and every member of the Iron Condor
\* bucket has recommended_strategy IRON_CONDOR.
C26_CalmLiquidScoresHigh ==
    /\ \A r \in Built :
            CalmAndLiquid(r) =>
                /\ r.iron_condor_score >= 65
                /\ r.iron_condor_score > r.straddle_score
    /\ pc = "done" =>
            /\ \A r \in Built : CalmAndLiquid(r) => r \in Range(buckets.iron_condor)
            /\ \A r \in Range(buckets.iron_condor) :
                    r.recommended_strategy = "IRON_CONDOR"

\* a calm, liquid stock with the lowest iron condor score, 65, and a
\* straddle score above 50, in the Iron Condor bucket
C26_Witness ==
    /\ pc = "done"
    /\ \E r \in Range(buckets.iron_condor) :
            r.iron_condor_score = 65 /\ r.straddle_score = 60

\* liquid, with earnings 0 to 7 days ahead
LiquidBeforeEarnings(r) ==
    /\ r.options_liquid /\ r.has_earnings_soon
    /\ r.days_to_earnings # NoInt
    /\ 0 <= r.days_to_earnings[1] /\ r.days_to_earnings[1] <= 7

\* C27: a result of screen_symbol that is liquid with has_earnings_soon
\* true and days_to_earnings in [0, 7] has straddle_score >= 50; the
\* threshold straddle_score > 40 excludes no such candidate, and only
\* current_price <= (capital * 0.10) / 3 decides whether it is in the
\* Straddle bucket.
C27_EarningsScoresHigh ==
    /\ \A r \in Built : LiquidBeforeEarnings(r) => r.straddle_score >= 50
    /\ pc = "done" =>
            \A r \in Built :
                LiquidBeforeEarnings(r) =>
                    (r \in Range(buckets.straddle) <=> 3 * r.current_price <= capital * 10)

\* a stock with earnings four to seven days ahead and the lowest
\* straddle score, 50, in the Straddle bucket
C27_Witness ==
    /\ pc = "done"
    /\ \E r \in Range(buckets.straddle) :
            r.straddle_score = 50 /\ r.days_to_earnings[1] >= 4

====
